---- MODULE Spec2Model ----
(***************************************************************************)
(* Claude-Conversation-Exporter: the browse page's batch export            *)
(* (exportAllFiltered), its search, filter and sort controls, the single   *)
(* export (exportConversation), the content script's export of every       *)
(* conversation (exportAllConversations), the model inference (inferModel  *)
(* of the content script and of the page), the                             *)
(* renderers (convertToMarkdown, convertToText) and the branch             *)
(* reconstruction (getCurrentBranch), as state machines.                   *)
(*                                                                         *)
(* JavaScript runs one callback at a time: an action below is one          *)
(* callback run from the point where it is resumed to the next await (or   *)
(* to its end).  The steps of getCurrentBranch are the iterations of its   *)
(* while loop, so that a walk that never ends is a behaviour of the model. *)
(***************************************************************************)
EXTENDS Integers, Sequences, FiniteSets, TLC

\* ------------------------------------------------------------ bounds
\* The longest conversation list handed to a batch export.
MaxConvs == 7
\* The longest list of the runs checked for termination.
MaxFairConvs == 4
\* The longest list of the runs in which the page's controls are used.
MaxUIConvs == 4
\* The most events of the page's controls in one run.
MaxUIEvents == 2
\* The most messages a conversation record holds.
MaxMsgs == 3
\* The longest chain of messages rendered.
MaxChain == 5
\* The most calls of getCurrentBranch on one record.
MaxCalls == 3
\* The most conversations the account's list holds for the content script.
MaxAllConvs == 3

\* ------------------------------------------------- program constants
\* const batchSize = 3
batchSize == 3

Formats == {"markdown", "text", "json"}

Min(a, b) == IF a <= b THEN a ELSE b

\* ------------------------------------------------------- conversations
\* A conversation name is a sequence of pieces: a run of characters that
\* are legal in a file name, or one character of the class [<>:"/\|?*].
IllegalChars == {"<", ">", ":", "\"", "/", "\\", "|", "?", "*"}

\* The names of the conversations of the list, by uuid.  Two conversations
\* share a name, two names differ only in an illegal character, and one
\* conversation is named like the summary file.
NameTable ==
  << <<"a">>, <<"b">>, <<"a", "/", "b">>, <<"a", "_", "b">>, <<"a">>,
     <<"export_summary">>, <<"c", "?">> >>

ConversationSummary(u) ==
  [uuid |-> u, name |-> NameTable[((u - 1) % Len(NameTable)) + 1]]

\* The lists the page can hold when Export All is clicked: the first n
\* conversations of the account, n = 0 .. MaxConvs.
ConversationLists ==
  { [k \in 1..n |-> ConversationSummary(k)] : n \in 0..MaxConvs }

VARIABLES
  \* page state
  allConversations,       \* the conversations loaded
  filteredConversations,  \* the list the table shows
  searchInput,            \* #searchInput value
  modelFilter,            \* #modelFilter value
  currentSort,
  uiEvents,               \* the events of the controls handled so far
  button,                 \* #exportAllBtn: disabled, textContent
  progressModal,          \* #progressModal style.display
  progressText,           \* #progressText
  progressBar,            \* #progressBar width, in percent
  progressStats,          \* #progressStats: <<succeeded, failed, total>>
  toast,                  \* the last toast: <<message, error, isError>>
  downloads,              \* the archives handed to the browser
  \* the locals of the running exportAllFiltered
  pc,                     \* where the handler is suspended
  format, includeMetadata, cancelExport, zip, total, completed, failed,
  failedConversations, i, batch,
  tasks,                  \* the async callbacks of batch.map started so far
  promises,               \* the tasks the pending Promise.all waits for
  \* history of the run
  input,                  \* the list when the run started
  batches,                \* the batches started, in order
  fetchFailed,            \* the uuids whose fetch failed
  cancelledAt,            \* the run when Cancel was first clicked: where it
                          \* was, and the tasks started by then
  outcome,                \* how the run ended
  \* one call of getCurrentBranch(data)
  data,                   \* its argument
  frame,                  \* where the call is: call, while, returned, threw
  messageMap, branch, currentUuid,
  turns,                  \* the turns of the while loop taken
  returns,                \* what the calls so far returned, in order
  \* one call of inferModel(conversation)
  conversation,           \* its argument
  inferred,               \* what it returned: << >> before it returns
  pageInferred,           \* what the page's inferModel returned for it
  \* one call of convertToMarkdown or convertToText(data, includeMetadata)
  rendering,              \* the function, its includeMetadata, where it is
  output,                 \* the string built so far, as a sequence of pieces
  \* one export of a single conversation
  single,                 \* the handler, its request, where it is suspended
  fetched,                \* the record as the response body gave it
  fetches,                \* the requests issued
  saved,                  \* the files handed to downloadFile
  reports,                \* the toasts shown, or the calls of sendResponse
  \* one exportAllConversations message to the content script
  all                     \* the request, the locals of the handler, where it
                          \* is suspended, what it downloaded and answered

jobVars ==
  << allConversations, filteredConversations, searchInput, modelFilter,
     currentSort, uiEvents, button, progressModal, progressText, progressBar,
     progressStats, toast, downloads, pc, format, includeMetadata,
     cancelExport, zip, total, completed, failed, failedConversations, i,
     batch, tasks, promises, input, batches, fetchFailed, cancelledAt,
     outcome >>

branchVars ==
  << data, frame, messageMap, branch, currentUuid, turns, returns >>

inferVars == << conversation, inferred, pageInferred >>

\* What neither the batch export nor getCurrentBranch touches.
renderVars == << rendering, output >>

singleVars == << single, fetched, fetches, saved, reports >>

restVars == << inferVars, renderVars, singleVars, all >>

vars == << jobVars, branchVars, restVars >>

\* The state as one record, and its assignment to the next state.
Cur ==
  [ allConversations |-> allConversations,
    filteredConversations |-> filteredConversations,
    searchInput |-> searchInput, modelFilter |-> modelFilter,
    currentSort |-> currentSort, uiEvents |-> uiEvents, button |-> button,
    progressModal |-> progressModal, progressText |-> progressText,
    progressBar |-> progressBar, progressStats |-> progressStats,
    toast |-> toast, downloads |-> downloads, pc |-> pc, format |-> format,
    includeMetadata |-> includeMetadata, cancelExport |-> cancelExport,
    zip |-> zip, total |-> total, completed |-> completed, failed |-> failed,
    failedConversations |-> failedConversations, i |-> i, batch |-> batch,
    tasks |-> tasks, promises |-> promises, input |-> input,
    batches |-> batches, fetchFailed |-> fetchFailed,
    cancelledAt |-> cancelledAt, outcome |-> outcome ]

Becomes(S) ==
  /\ allConversations' = S.allConversations
  /\ filteredConversations' = S.filteredConversations
  /\ searchInput' = S.searchInput
  /\ modelFilter' = S.modelFilter
  /\ currentSort' = S.currentSort
  /\ uiEvents' = S.uiEvents
  /\ button' = S.button
  /\ progressModal' = S.progressModal
  /\ progressText' = S.progressText
  /\ progressBar' = S.progressBar
  /\ progressStats' = S.progressStats
  /\ toast' = S.toast
  /\ downloads' = S.downloads
  /\ pc' = S.pc
  /\ format' = S.format
  /\ includeMetadata' = S.includeMetadata
  /\ cancelExport' = S.cancelExport
  /\ zip' = S.zip
  /\ total' = S.total
  /\ completed' = S.completed
  /\ failed' = S.failed
  /\ failedConversations' = S.failedConversations
  /\ i' = S.i
  /\ batch' = S.batch
  /\ tasks' = S.tasks
  /\ promises' = S.promises
  /\ input' = S.input
  /\ batches' = S.batches
  /\ fetchFailed' = S.fetchFailed
  /\ cancelledAt' = S.cancelledAt
  /\ outcome' = S.outcome
  /\ UNCHANGED << branchVars, restVars >>

InitJob ==
  /\ filteredConversations \in ConversationLists
  /\ allConversations = filteredConversations
  /\ searchInput = ""
  /\ modelFilter = ""
  /\ currentSort = "updated_desc"
  /\ uiEvents = 0
  /\ button = [disabled |-> FALSE, textContent |-> "Export All"]
  /\ progressModal = "none"
  /\ progressText = ""
  /\ progressBar = 0
  /\ progressStats = << >>
  /\ toast = << >>
  /\ downloads = << >>
  /\ pc = "idle"
  /\ format = "json"
  /\ includeMetadata = FALSE
  /\ cancelExport = FALSE
  /\ zip = {}
  /\ total = 0
  /\ completed = 0
  /\ failed = 0
  /\ failedConversations = << >>
  /\ i = 0
  /\ batch = << >>
  /\ tasks = << >>
  /\ promises = {}
  /\ input = << >>
  /\ batches = << >>
  /\ fetchFailed = {}
  /\ cancelledAt = [pc |-> "never", tasks |-> 0]
  /\ outcome = "none"

\* ------------------------------------------------ exportAllFiltered
\* conv.name.replace(/[<>:"/\\|?*]/g, '_')
SafeName(name) ==
  [k \in 1..Len(name) |-> IF name[k] \in IllegalChars THEN "_" ELSE name[k]]

\* The switch on format: the file name of a conversation in the archive.
FileName(conv, fmt) ==
  Append(SafeName(conv.name),
         CASE fmt = "markdown" -> ".md"
           [] fmt = "text" -> ".txt"
           [] OTHER -> ".json")

\* The rendered document of a conversation (its text is not modelled here).
Content(conv, fmt, meta) ==
  [kind |-> "conversation", uuid |-> conv.uuid, format |-> fmt,
   include_metadata |-> meta]

\* zip.file(name, content): a later entry of the same name replaces the
\* earlier one.
ZipFile(z, name, content) ==
  {e \in z : e.name # name} \cup {[name |-> name, content |-> content]}

SummaryName == <<"export_summary", ".json">>

\* The summary object (its export_date, a clock reading, is left out).
Summary(S) ==
  [kind |-> "summary",
   total_conversations |-> S.total,
   successful_exports |-> S.completed,
   failed_exports |-> S.failed,
   failed_conversations |-> S.failedConversations,
   format |-> S.format,
   include_metadata |-> S.includeMetadata]

\* Mutant: the slice taken with its end index included.
BatchSliceInclusive(list, idx, tot) ==
  SubSeq(list, idx + 1, Min(Min(idx + batchSize + 1, tot), Len(list)))

\* filteredConversations.slice(i, Math.min(i + batchSize, total))
BatchSlice(list, idx, tot) ==
  SubSeq(list, idx + 1, Min(Min(idx + batchSize, tot), Len(list)))

\* Mutant: the loop without its cancellation check.
LoopNeverBreaks(cancel) == FALSE

\* if (cancelExport) break;
LoopBreak(cancel) == cancel

\* i += batchSize
NextIndex(idx) == idx + batchSize

\* if (i + batchSize < total && !cancelExport): the pause between batches
NeedsPause(idx, tot, cancel) == idx + batchSize < tot /\ ~cancel

\* Math.round((completed + failed) / total * 100)
Progress(done, tot) == (200 * done + tot) \div (2 * tot)

InFlightStates == {"fetch", "json"}

\* Mutant: Promise.race in place of Promise.all.
PromiseRace(ts, ps) == \E k \in ps : ts[k].st \notin InFlightStates

\* await Promise.all(promises) resumes once every task of the batch has
\* run to its end.
PromiseAll(ts, ps) == \A k \in ps : ts[k].st \notin InFlightStates

\* Mutant: no finally block.
NoFinally(S) == [S EXCEPT !.pc = "ended"]

\* finally { button.disabled = false; button.textContent = 'Export All'; }
Finally(S) ==
  [S EXCEPT !.button = [disabled |-> FALSE, textContent |-> "Export All"],
            !.pc = "ended"]

\* catch (error) of the whole export: hide the modal, toast the failure
\* with the error's message.
OuterCatch(S, error) ==
  Finally([S EXCEPT !.progressModal = "none",
                    !.toast = <<"Export failed", error, TRUE>>,
                    !.outcome = "export failed"])

\* if (cancelExport) { hide the modal; toast; return; }
Cancelled(S) ==
  Finally([S EXCEPT !.progressModal = "none",
                    !.toast = <<"Export cancelled", "", TRUE>>,
                    !.outcome = "cancelled"])

\* After the loop: the cancellation exit, or the summary file and the
\* start of zip.generateAsync.
AfterLoop(S) ==
  IF S.cancelExport
  THEN Cancelled(S)
  ELSE [S EXCEPT !.zip = ZipFile(S.zip, SummaryName, Summary(S)),
                 !.progressText = "Creating ZIP file...",
                 !.pc = "generateAsync"]

\* batch.map(async (conv) => ...): every callback runs to its fetch, so the
\* requests of a batch are all issued here.
StartBatch(S) ==
  LET b == BatchSlice(S.filteredConversations, S.i, S.total)
      n == Len(S.tasks)
  IN  [S EXCEPT !.batch = b,
                !.tasks = @ \o [k \in 1..Len(b) |-> [conv |-> b[k], st |-> "fetch"]],
                !.promises = (n + 1)..(n + Len(b)),
                !.batches = Append(@, b),
                !.pc = "Promise.all"]

\* The head of the for loop, at index S.i.
ForLoop(S) ==
  IF S.i < S.total /\ ~LoopBreak(S.cancelExport)
  THEN StartBatch(S)
  ELSE AfterLoop(S)

\* The lines of exportAllFiltered up to the first await.
Clicked(S, fmt, meta) ==
  ForLoop([S EXCEPT !.format = fmt,
                    !.includeMetadata = meta,
                    !.button = [disabled |-> TRUE, textContent |-> "Preparing..."],
                    !.progressModal = "block",
                    !.cancelExport = FALSE,
                    !.zip = {},
                    !.total = Len(S.filteredConversations),
                    !.completed = 0,
                    !.failed = 0,
                    !.failedConversations = << >>,
                    !.progressText = "Exporting conversations...",
                    !.i = 0,
                    !.input = S.filteredConversations])

\* The click on Export All.  The model follows one run of the handler from
\* the click to its end: the locals of a run are its own, and a later run
\* differs from the first only in what the page still shows of the earlier.
exportAllFiltered ==
  /\ pc = "idle"
  /\ ~button.disabled
  /\ \E fmt \in Formats, meta \in BOOLEAN : Becomes(Clicked(Cur, fmt, meta))

\* cancelButton.onclick, while the modal (and the button in it) is shown.
CancelClicked(S) ==
  [S EXCEPT !.cancelExport = TRUE,
            !.progressText = "Cancelling...",
            !.cancelledAt = IF S.cancelExport THEN @
                            ELSE [pc |-> S.pc, tasks |-> Len(S.tasks)]]

cancelExportClick ==
  /\ progressModal = "block"
  /\ Becomes(CancelClicked(Cur))

\* Mutant: the callback of batch.map without its try/catch.
TaskRethrows == FALSE

\* Does the callback of batch.map catch what its body throws?
TaskCatches == TRUE

\* Mutant: the catch block counts the failure and drops the name.
CatchTaskNameless(S, k) ==
  [S EXCEPT !.tasks[k].st = "failed",
            !.failed = @ + 1]

\* catch (error) of one conversation: count it and record its name.
CatchTask(S, k) ==
  [S EXCEPT !.tasks[k].st = "failed",
            !.failed = @ + 1,
            !.failedConversations = Append(@, S.tasks[k].conv.name)]

\* The body of task k throws: its catch block runs; were there none, the
\* rejection would reach Promise.all and the catch of the whole export.
TaskThrows(S, k) ==
  LET F == [S EXCEPT !.fetchFailed = @ \cup {S.tasks[k].conv.uuid}]
  IN  IF TaskCatches
      THEN CatchTask(F, k)
      ELSE LET R == [F EXCEPT !.tasks[k].st = "rejected"]
           IN  IF R.pc = "Promise.all" /\ k \in R.promises
               THEN OuterCatch(R, "fetch")
               ELSE R

\* The response arrived with response.ok: the body is read next.
ResponseOk(S, k) == [S EXCEPT !.tasks[k].st = "json"]

\* The body parsed: render, add the file to the archive, count it.
TaskCompletes(S, k) ==
  LET conv == S.tasks[k].conv
  IN  [S EXCEPT !.zip = ZipFile(@, FileName(conv, S.format),
                                Content(conv, S.format, S.includeMetadata)),
                !.completed = @ + 1,
                !.tasks[k].st = "ok"]

fetchResolvesOk ==
  \E k \in DOMAIN tasks :
    /\ tasks[k].st = "fetch"
    /\ Becomes(ResponseOk(Cur, k))

\* A non-success response: throw new Error(`HTTP ${response.status}`).
fetchResolvesNotOk ==
  \E k \in DOMAIN tasks :
    /\ tasks[k].st = "fetch"
    /\ Becomes(TaskThrows(Cur, k))

\* A network error: fetch rejects.
fetchRejects ==
  \E k \in DOMAIN tasks :
    /\ tasks[k].st = "fetch"
    /\ Becomes(TaskThrows(Cur, k))

jsonResolves ==
  \E k \in DOMAIN tasks :
    /\ tasks[k].st = "json"
    /\ Becomes(TaskCompletes(Cur, k))

\* The body does not arrive or is no JSON: response.json() rejects.
jsonRejects ==
  \E k \in DOMAIN tasks :
    /\ tasks[k].st = "json"
    /\ Becomes(TaskThrows(Cur, k))

\* Mutant: the progress update leaves the failed conversations out.
BatchSettledSucceededOnly(S) ==
  LET P == [S EXCEPT !.progressBar = Progress(S.completed, S.total),
                     !.progressStats = <<S.completed, 0, S.total>>]
  IN  IF NeedsPause(P.i, P.total, P.cancelExport)
      THEN [P EXCEPT !.pc = "setTimeout"]
      ELSE ForLoop([P EXCEPT !.i = NextIndex(@)])

\* Promise.all resolved: the progress update, then the pause or the next
\* turn of the loop.
BatchSettled(S) ==
  LET P == [S EXCEPT !.progressBar = Progress(S.completed + S.failed, S.total),
                     !.progressStats = <<S.completed, S.failed, S.total>>]
  IN  IF NeedsPause(P.i, P.total, P.cancelExport)
      THEN [P EXCEPT !.pc = "setTimeout"]
      ELSE ForLoop([P EXCEPT !.i = NextIndex(@)])

promiseAllResolves ==
  /\ pc = "Promise.all"
  /\ PromiseAll(tasks, promises)
  /\ Becomes(BatchSettled(Cur))

\* The 200 ms timer fired.
PauseOver(S) == ForLoop([S EXCEPT !.i = NextIndex(@)])

setTimeoutFires ==
  /\ pc = "setTimeout"
  /\ Becomes(PauseOver(Cur))

\* The progress callback of zip.generateAsync.
ZipPercents == {0, 50, 100}

generateAsyncUpdate ==
  /\ pc = "generateAsync"
  /\ \E p \in ZipPercents :
       /\ p > progressBar \/ p = 100
       /\ Becomes([Cur EXCEPT !.progressBar = p])

\* The archive is ready: download it, hide the modal, toast the result.
Downloaded(S) ==
  Finally([S EXCEPT !.downloads = Append(@, [filename |-> "claude-conversations.zip",
                                            entries |-> S.zip]),
                    !.progressModal = "none",
                    !.toast = IF S.failed > 0
                              THEN <<"Exported some", "", FALSE>>
                              ELSE <<"Exported all", "", FALSE>>,
                    !.outcome = "archive"])

generateAsyncResolves ==
  /\ pc = "generateAsync"
  /\ Becomes(Downloaded(Cur))

generateAsyncRejects ==
  /\ pc = "generateAsync"
  /\ Becomes(OuterCatch(Cur, "generateAsync"))

\* ------------------------------------------------- applyFiltersAndSort
\* The conversations of S.allConversations that match the search box and the
\* model filter.  A conversation of the list carries no summary; the models
\* of the account alternate.
Filter(S) ==
  LET model(conv) == IF conv.uuid % 2 = 1 THEN "claude-3-opus-20240229"
                     ELSE "claude-sonnet-4-20250514"
      includes(name, term) == \E k \in DOMAIN name : name[k] = term
      matchesSearch(conv) == S.searchInput = "" \/ includes(conv.name, S.searchInput)
      matchesModel(conv) == S.modelFilter = "" \/ model(conv) = S.modelFilter
  IN  SelectSeq(S.allConversations,
                LAMBDA conv : matchesSearch(conv) /\ matchesModel(conv))

\* aVal, bVal of the comparison: the place of the lower-cased name in the
\* order of strings, or the time of created_at or updated_at.  A conversation
\* of the account is the more recently updated the earlier it is in the list
\* loaded.
SortKey(conv, field) ==
  CASE field = "name" ->
         << 1, 4, 2, 3, 1, 6, 5 >>[((conv.uuid - 1) % Len(NameTable)) + 1]
    [] field = "created" -> (3 * conv.uuid) % 5
    [] OTHER -> 0 - conv.uuid

\* filteredConversations.sort(...): the comparison never answers 0, so the
\* order of two conversations with equal keys is the engine's.
SortConversations(list, sort) ==
  LET field == IF sort \in {"name_asc", "name_desc"} THEN "name"
               ELSE IF sort \in {"created_asc", "created_desc"} THEN "created"
               ELSE "updated"
      asc == sort \in {"name_asc", "created_asc", "updated_asc"}
      before(a, b) == IF asc THEN SortKey(a, field) < SortKey(b, field)
                      ELSE SortKey(a, field) > SortKey(b, field)
  IN  { sorted \in { [k \in DOMAIN list |-> list[p[k]]] :
                       p \in Permutations(DOMAIN list) } :
          \A j, k \in DOMAIN sorted : j < k => ~before(sorted[k], sorted[j]) }

\* displayConversations(): the table is a function of the list; with a list
\* that is not empty the Export All button is enabled.
DisplayConversations(S) ==
  IF S.filteredConversations = << >> THEN S
  ELSE [S EXCEPT !.button.disabled = FALSE]

\* applyFiltersAndSort(): the outcomes of filter, sort and display.
ApplyFiltersAndSort(S) ==
  { DisplayConversations([S EXCEPT !.filteredConversations = sorted]) :
      sorted \in SortConversations(Filter(S), S.currentSort) }

\* The input event of the search box.
searchInputInput ==
  \E term \in {"", "b", "c"} :
    /\ uiEvents < MaxUIEvents
    /\ \E S \in ApplyFiltersAndSort([Cur EXCEPT !.searchInput = term,
                                               !.uiEvents = @ + 1]) :
         Becomes(S)

\* The click on the cross of the search box.
clearSearchClick ==
  /\ uiEvents < MaxUIEvents
  /\ \E S \in ApplyFiltersAndSort([Cur EXCEPT !.searchInput = "",
                                             !.uiEvents = @ + 1]) :
       Becomes(S)

\* The change event of the model filter.
modelFilterChange ==
  \E value \in {"", "claude-3-opus-20240229"} :
    /\ value # modelFilter
    /\ uiEvents < MaxUIEvents
    /\ \E S \in ApplyFiltersAndSort([Cur EXCEPT !.modelFilter = value,
                                               !.uiEvents = @ + 1]) :
         Becomes(S)

\* The change event of the sort dropdown.
sortByChange ==
  \E value \in {"name_asc", "created_desc", "updated_asc", "updated_desc"} :
    /\ value # currentSort
    /\ uiEvents < MaxUIEvents
    /\ \E S \in ApplyFiltersAndSort([Cur EXCEPT !.currentSort = value,
                                               !.uiEvents = @ + 1]) :
         Becomes(S)

\* ------------------------------------------------- getCurrentBranch
\* An identifier is a positive number; Undefined is the absent one (null or
\* undefined in the record), which is falsy.
Undefined == 0

Truthy(u) == u # Undefined

\* The identifiers of messages, and one more that names no message.
Uuids == 1..MaxMsgs

Dangling == MaxMsgs + 1

\* chat_messages: an array of messages, or absent.
Array(items) == [array |-> TRUE, items |-> items]

NoArray == [array |-> FALSE, items |-> << >>]

Message(u, p) == [uuid |-> u, parent_message_uuid |-> p]

\* The k-th smallest element of a set of numbers.
Nth(set, k) == CHOOSE x \in set : Cardinality({y \in set : y < x}) = k - 1

\* The messages with the identifiers P and the parents par, as an array.
Messages(P, par) ==
  [k \in 1..Cardinality(P) |-> Message(Nth(P, k), par[Nth(P, k)])]

\* The records a call is made on: every set of messages with distinct
\* identifiers among ids, every parent of each (absent, a message of the
\* record or not, itself), every current leaf, and the record without
\* chat_messages.
Records(ids) ==
  { [chat_messages |-> NoArray, current_leaf_message_uuid |-> l] :
      l \in 0..Dangling }
  \cup
  UNION { { [chat_messages |-> Array(Messages(P, par)),
             current_leaf_message_uuid |-> l] :
            par \in [P -> 0..Dangling], l \in 0..Dangling } :
          P \in SUBSET ids }

\* Mutant: the guard without its test of chat_messages.
EarlyReturnLeafOnly(d) == ~Truthy(d.current_leaf_message_uuid)

\* if (!data.chat_messages || !data.current_leaf_message_uuid) return [];
EarlyReturn(d) ==
  ~d.chat_messages.array \/ ~Truthy(d.current_leaf_message_uuid)

\* messageMap.set(msg.uuid, msg)
MapSet(m, key, value) ==
  [k \in DOMAIN m \cup {key} |-> IF k = key THEN value ELSE m[k]]

\* data.chat_messages.forEach(msg => messageMap.set(msg.uuid, msg))
RECURSIVE BuildMap(_)
BuildMap(items) ==
  IF items = << >> THEN << >>
  ELSE MapSet(BuildMap(SubSeq(items, 1, Len(items) - 1)),
              items[Len(items)].uuid, items[Len(items)])

MapHas(m, u) == u \in DOMAIN m

\* Mutant: branch.push(message).
Push(b, message) == Append(b, message)

\* branch.unshift(message)
Unshift(b, message) == <<message>> \o b

\* The walk of a record with a cycle never ends and its branch grows without
\* bound: the model keeps the first MaxWalk elements of the branch and counts
\* the turns of the loop up to MaxWalk, then modulo 2.
MaxWalk == MaxMsgs + 2

Capped(b) == SubSeq(b, 1, Min(Len(b), MaxWalk))

Turn(n) == IF n < MaxWalk + 1 THEN n + 1 ELSE MaxWalk

\* Mutant: one array for the branches of every call.
SameArray(old) == old

\* const branch = []
NewArray(old) == << >>

\* The call up to the while loop.
getCurrentBranchCall ==
  /\ frame = "call"
  /\ IF EarlyReturn(data)
     THEN /\ frame' = "returned"
          /\ branch' = << >>
          /\ returns' = Append(returns, << >>)
          /\ UNCHANGED << messageMap, currentUuid >>
     ELSE IF ~data.chat_messages.array
     THEN \* forEach of an absent collection: a TypeError
          /\ frame' = "threw"
          /\ UNCHANGED << messageMap, branch, currentUuid, returns >>
     ELSE /\ messageMap' = BuildMap(data.chat_messages.items)
          /\ branch' = NewArray(branch)
          /\ currentUuid' = data.current_leaf_message_uuid
          /\ frame' = "while"
          /\ UNCHANGED returns
  /\ UNCHANGED << data, turns >>
  /\ UNCHANGED << jobVars, restVars >>

\* while (currentUuid && messageMap.has(currentUuid))
WhileCondition(m, u) == Truthy(u) /\ MapHas(m, u)

\* if (!messageMap.has(currentUuid)) break;
RootReached(m, u) == ~MapHas(m, u)

\* One turn of the loop: prepend the message and move to its parent.
whileTurn ==
  /\ frame = "while"
  /\ WhileCondition(messageMap, currentUuid)
  /\ LET message == messageMap[currentUuid]
     IN  /\ branch' = Capped(Unshift(branch, message))
         /\ currentUuid' = message.parent_message_uuid
         /\ frame' = IF RootReached(messageMap, message.parent_message_uuid)
                     THEN "returned" ELSE "while"
         /\ returns' = IF RootReached(messageMap, message.parent_message_uuid)
                       THEN Append(returns, Capped(Unshift(branch, message)))
                       ELSE returns
  /\ turns' = Turn(turns)
  /\ UNCHANGED << data, messageMap >>
  /\ UNCHANGED << jobVars, restVars >>

\* The loop condition fails: return branch.
whileExit ==
  /\ frame = "while"
  /\ ~WhileCondition(messageMap, currentUuid)
  /\ frame' = "returned"
  /\ returns' = Append(returns, branch)
  /\ UNCHANGED << data, messageMap, branch, currentUuid, turns >>
  /\ UNCHANGED << jobVars, restVars >>

\* The caller calls getCurrentBranch again, with the record of the call
\* before.
getCurrentBranchAgain ==
  /\ frame = "returned"
  /\ Len(returns) < MaxCalls
  /\ frame' = "call"
  /\ UNCHANGED << data, messageMap, branch, currentUuid, turns, returns >>
  /\ UNCHANGED << jobVars, restVars >>

NoCall ==
  /\ data = [chat_messages |-> NoArray, current_leaf_message_uuid |-> Undefined]
  /\ frame = "none"
  /\ messageMap = << >>
  /\ branch = << >>
  /\ currentUuid = Undefined
  /\ turns = 0
  /\ returns = << >>

InitBranch ==
  /\ data \in Records(Uuids)
  /\ frame = "call"
  /\ messageMap = << >>
  /\ branch = << >>
  /\ currentUuid = Undefined
  /\ turns = 0
  /\ returns = << >>

\* ------------------------------------------------------- inferModel
\* The value of a field of a fetched record: a string, null, or no field.
Null == [t |-> "null", s |-> ""]

NoField == [t |-> "undefined", s |-> ""]

Str(s) == [t |-> "string", s |-> s]

\* if (v): of these values only a non-empty string is truthy.
ToBoolean(v) == v.t = "string" /\ v.s # ""

\* The time value of a Date, in seconds since 1970-01-01T00:00:00Z; NaN is
\* the time value of an invalid Date.
NaN == -1

\* The days from 1970-01-01 to a date of the proleptic Gregorian calendar.
DaysFromCivil(y, m, d) ==
  LET yy == IF m <= 2 THEN y - 1 ELSE y
      era == yy \div 400
      yoe == yy - era * 400
      mp == (m + 9) % 12
      doy == (153 * mp + 2) \div 5 + d - 1
      doe == yoe * 365 + yoe \div 4 - yoe \div 100 + doy
  IN  era * 146097 + doe - 719468

\* new Date('2024-06-20'): a date without a time is midnight UTC.
DateOnly(y, m, d) == DaysFromCivil(y, m, d) * 86400

\* created_at as the API sends it: a date, a time of day (in seconds) and an
\* offset from UTC (in hours).
Iso(y, m, d, sec, off) ==
  [kind |-> "iso", y |-> y, m |-> m, d |-> d, sec |-> sec, off |-> off]

\* created_at is null, is missing from the record, or is no date at all.
NoDate(kind) == [kind |-> kind, y |-> 0, m |-> 0, d |-> 0, sec |-> 0, off |-> 0]

\* new Date(conversation.created_at)
NewDate(c) ==
  CASE c.kind = "iso" ->
         DaysFromCivil(c.y, c.m, c.d) * 86400 + c.sec - c.off * 3600
    [] c.kind = "null" -> 0
    [] OTHER -> NaN

\* Mutant: the comparison made strict.
GT(a, b) == a # NaN /\ b # NaN /\ a > b

\* conversationDate >= DEFAULT_MODEL_TIMELINE[i].date: a comparison of time
\* values, false when one of them is NaN.
GE(a, b) == a # NaN /\ b # NaN /\ a >= b

DEFAULT_MODEL_TIMELINE ==
  << [date |-> DateOnly(2024, 1, 1), model |-> "claude-3-sonnet-20240229"],
     [date |-> DateOnly(2024, 6, 20), model |-> "claude-3-5-sonnet-20240620"],
     [date |-> DateOnly(2024, 10, 22), model |-> "claude-3-5-sonnet-20241022"],
     [date |-> DateOnly(2025, 2, 24), model |-> "claude-3-7-sonnet-20250219"],
     [date |-> DateOnly(2025, 5, 22), model |-> "claude-sonnet-4-20250514"],
     [date |-> DateOnly(2025, 9, 29), model |-> "claude-sonnet-4-5-20250929"],
     [date |-> DateOnly(2025, 11, 1), model |-> "claude-opus-4-5-20251101"] >>

\* Mutant: the test of the model field dropped.
ModelNeverGiven(c) == FALSE

\* if (conversation.model)
ModelGiven(c) == ToBoolean(c.model)

\* Mutant: no return after the loop.
BeforeAllNull == Null

\* return DEFAULT_MODEL_TIMELINE[0].model, after the loop.
BeforeAll == Str(DEFAULT_MODEL_TIMELINE[1].model)

\* for (let i = DEFAULT_MODEL_TIMELINE.length - 1; i >= 0; i--), at i = k - 1.
RECURSIVE TimelineLoop(_, _)
TimelineLoop(conversationDate, k) ==
  IF k < 1 THEN BeforeAll
  ELSE IF GE(conversationDate, DEFAULT_MODEL_TIMELINE[k].date)
  THEN Str(DEFAULT_MODEL_TIMELINE[k].model)
  ELSE TimelineLoop(conversationDate, k - 1)

inferModel(c) ==
  IF ModelGiven(c) THEN c.model
  ELSE TimelineLoop(NewDate(c.created_at), Len(DEFAULT_MODEL_TIMELINE))

\* The created_at of the conversations inferModel is called on: the dates of
\* the timeline, the day before each, a day before them all and one after,
\* each at midnight and one second before the next, in UTC and two hours
\* east; and a created_at that is null, missing, or no date.
CreatedAts ==
  { Iso(day[1], day[2], day[3], sec, off) :
      day \in { <<2023, 6, 15>>, <<2023, 12, 31>>, <<2024, 1, 1>>,
                <<2024, 6, 19>>, <<2024, 6, 20>>, <<2024, 10, 21>>,
                <<2024, 10, 22>>, <<2025, 2, 23>>, <<2025, 2, 24>>,
                <<2025, 5, 21>>, <<2025, 5, 22>>, <<2025, 9, 28>>,
                <<2025, 9, 29>>, <<2025, 10, 31>>, <<2025, 11, 1>>,
                <<2026, 3, 1>> },
      sec \in {0, 86399}, off \in {0, 2} }
  \cup { NoDate("null"), NoDate("undefined"), NoDate("unparseable") }

\* Each with a model that is null, missing, empty, of the timeline or not.
Conversations ==
  { [model |-> mdl, created_at |-> c] :
      mdl \in { Null, NoField, Str(""), Str("claude-3-opus-20240229"),
                Str("claude-3-sonnet-20240229") },
      c \in CreatedAts }

inferModelCall ==
  /\ inferred = << >>
  /\ inferred' = << inferModel(conversation) >>
  /\ UNCHANGED << conversation, pageInferred >>
  /\ UNCHANGED << jobVars, branchVars, renderVars, singleVars, all >>

\* Mutant: the page's timeline without the entries of 2025.
PAGE_MODEL_TIMELINE_OF_2024 ==
  << [date |-> DateOnly(2024, 1, 1), model |-> "claude-3-sonnet-20240229"],
     [date |-> DateOnly(2024, 6, 20), model |-> "claude-3-5-sonnet-20240620"],
     [date |-> DateOnly(2024, 10, 22), model |-> "claude-3-5-sonnet-20241022"] >>

\* DEFAULT_MODEL_TIMELINE of the browse page.
PAGE_MODEL_TIMELINE ==
  << [date |-> DateOnly(2024, 1, 1), model |-> "claude-3-sonnet-20240229"],
     [date |-> DateOnly(2024, 6, 20), model |-> "claude-3-5-sonnet-20240620"],
     [date |-> DateOnly(2024, 10, 22), model |-> "claude-3-5-sonnet-20241022"],
     [date |-> DateOnly(2025, 2, 24), model |-> "claude-3-7-sonnet-20250219"],
     [date |-> DateOnly(2025, 5, 22), model |-> "claude-sonnet-4-20250514"],
     [date |-> DateOnly(2025, 9, 29), model |-> "claude-sonnet-4-5-20250929"],
     [date |-> DateOnly(2025, 11, 1), model |-> "claude-opus-4-5-20251101"] >>

\* inferModel of the browse page: the test of the model field, the loop from
\* the last entry of the page's timeline down, the return after the loop.
pageInferModel(c) ==
  LET conversationDate == NewDate(c.created_at)
      RECURSIVE loop(_)
      loop(k) ==
        IF k < 1 THEN Str(PAGE_MODEL_TIMELINE[1].model)
        ELSE IF GE(conversationDate, PAGE_MODEL_TIMELINE[k].date)
        THEN Str(PAGE_MODEL_TIMELINE[k].model)
        ELSE loop(k - 1)
  IN  IF ToBoolean(c.model) THEN c.model
      ELSE loop(Len(PAGE_MODEL_TIMELINE))

pageInferModelCall ==
  /\ pageInferred = << >>
  /\ pageInferred' = << pageInferModel(conversation) >>
  /\ UNCHANGED << conversation, inferred >>
  /\ UNCHANGED << jobVars, branchVars, renderVars, singleVars, all >>

\* No call of inferModel is under way.
NoInfer ==
  /\ conversation = [model |-> Null, created_at |-> NoDate("null")]
  /\ inferred = << Null >>
  /\ pageInferred = << Null >>

\* ------------------------------------- convertToMarkdown, convertToText
\* A string is built as a sequence of pieces, itself their concatenation; an
\* empty piece adds nothing.
Add(str, pieces) == str \o SelectSeq(pieces, LAMBDA piece : piece # "")

\* new Date(x).toLocaleString(): one text per time value.
toLocaleString(c) ==
  IF NewDate(c) = NaN THEN "Invalid Date" ELSE ToString(NewDate(c))

\* ${data.model}
TemplateString(v) ==
  CASE v.t = "string" -> v.s
    [] v.t = "null" -> "null"
    [] OTHER -> "undefined"

\* data.name || 'Untitled Conversation'
NameOrUntitled(d) == IF d.name # "" THEN d.name ELSE "Untitled Conversation"

\* A created_at that is a string (a date or not) is truthy.
DateGiven(c) == c.kind \in {"iso", "unparseable"}

\* The head of convertToMarkdown, up to the call of getCurrentBranch.
MarkdownHeader(d, includeMeta) ==
  Add(<< "# ", NameOrUntitled(d), "\n\n" >>,
      IF includeMeta
      THEN << "**Created:** ", toLocaleString(d.created_at), "\n",
              "**Updated:** ", toLocaleString(d.updated_at), "\n",
              "**Model:** ", TemplateString(d.model), "\n\n",
              "---\n\n" >>
      ELSE << >>)

\* for (const content of message.content) if (content.text) ...
RECURSIVE MarkdownBlocks(_)
MarkdownBlocks(items) ==
  IF items = << >> THEN << >>
  ELSE (IF Head(items).text # "" THEN << Head(items).text, "\n\n" >> ELSE << >>)
         \o MarkdownBlocks(Tail(items))

\* Mutant: the timestamp line written whatever includeMetadata is.
TimestampAlways(includeMeta, message) == DateGiven(message.created_at)

\* if (includeMetadata && message.created_at)
MessageTimestamp(includeMeta, message) ==
  includeMeta /\ DateGiven(message.created_at)

\* One turn of for (const message of branchMessages) in convertToMarkdown.
MarkdownMessage(message, includeMeta) ==
  << IF message.sender = "human" THEN "**You**" ELSE "**Claude**", ":\n\n" >>
  \o (IF message.content.array THEN MarkdownBlocks(message.content.items)
      ELSE IF message.text # "" THEN << message.text, "\n\n" >>
      ELSE << >>)
  \o (IF MessageTimestamp(includeMeta, message)
      THEN << "*", toLocaleString(message.created_at), "*\n\n" >>
      ELSE << >>)
  \o << "---\n\n" >>

RECURSIVE MarkdownMessages(_, _)
MarkdownMessages(messages, includeMeta) ==
  IF messages = << >> THEN << >>
  ELSE MarkdownMessage(Head(messages), includeMeta)
         \o MarkdownMessages(Tail(messages), includeMeta)

\* The head of convertToText.
TextHeader(d, includeMeta) ==
  Add(<< >>,
      IF includeMeta
      THEN << NameOrUntitled(d), "\n",
              "Created: ", toLocaleString(d.created_at), "\n",
              "Updated: ", toLocaleString(d.updated_at), "\n",
              "Model: ", TemplateString(d.model), "\n\n",
              "---", "\n\n" >>
      ELSE << >>)

\* Mutant: the flat text taken when no block gave a text.
MessageTextOrFlat(message) ==
  LET texts == SelectSeq([k \in DOMAIN message.content.items |->
                            message.content.items[k].text],
                         LAMBDA text : text # "")
  IN  IF texts # << >> THEN texts
      ELSE IF message.text # "" THEN << message.text >>
      ELSE << >>

\* messageText: the texts of the blocks, or the flat text.
MessageText(message) ==
  IF message.content.array
  THEN SelectSeq([k \in DOMAIN message.content.items |->
                    message.content.items[k].text],
                 LAMBDA text : text # "")
  ELSE IF message.text # "" THEN << message.text >>
  ELSE << >>

\* Mutant: one flag for both senders.
SenderLabelShared(sender, humanSeen, assistantSeen) ==
  IF sender = "human"
  THEN (IF humanSeen \/ assistantSeen THEN "H" ELSE "Human")
  ELSE (IF humanSeen \/ assistantSeen THEN "A" ELSE "Assistant")

\* senderLabel: the full word on the first occurrence, then the letter.
SenderLabel(sender, humanSeen, assistantSeen) ==
  IF sender = "human"
  THEN (IF humanSeen THEN "H" ELSE "Human")
  ELSE (IF assistantSeen THEN "A" ELSE "Assistant")

\* branchMessages.forEach(...) of convertToText, with its two flags.
RECURSIVE TextMessages(_, _, _)
TextMessages(messages, humanSeen, assistantSeen) ==
  IF messages = << >> THEN << >>
  ELSE LET message == Head(messages)
           human == message.sender = "human"
       IN  << SenderLabel(message.sender, humanSeen, assistantSeen), ":", " " >>
           \o MessageText(message)
           \o << "\n\n" >>
           \o TextMessages(Tail(messages), humanSeen \/ human,
                           assistantSeen \/ ~human)

\* text.trim(): the white space at both ends removed.
RECURSIVE Trim(_)
Trim(str) ==
  LET WhiteSpace == {" ", "\n", "\n\n"}
  IN  IF str = << >> THEN str
      ELSE IF Head(str) \in WhiteSpace THEN Trim(Tail(str))
      ELSE IF str[Len(str)] \in WhiteSpace
      THEN Trim(SubSeq(str, 1, Len(str) - 1))
      ELSE str

\* Mutant: every message of the record rendered.
AllMessages(branchMessages, d) == d.chat_messages.items

\* const branchMessages = getCurrentBranch(data): what the loops run over.
BranchMessages(branchMessages, d) == branchMessages

\* convertToMarkdown(data, includeMetadata) up to its call of
\* getCurrentBranch(data).
convertToMarkdownCall ==
  /\ rendering.at = "call"
  /\ rendering.fn = "convertToMarkdown"
  /\ output' = MarkdownHeader(data, rendering.includeMetadata)
  /\ rendering' = [rendering EXCEPT !.at = "getCurrentBranch"]
  /\ frame' = "call"
  /\ UNCHANGED << data, messageMap, branch, currentUuid, turns, returns >>
  /\ UNCHANGED << jobVars, inferVars, singleVars, all >>

\* getCurrentBranch returned: the loop over the messages, and the return.
convertToMarkdownReturn ==
  /\ rendering.at = "getCurrentBranch"
  /\ rendering.fn = "convertToMarkdown"
  /\ frame = "returned"
  /\ output' = Add(output, MarkdownMessages(BranchMessages(branch, data),
                                            rendering.includeMetadata))
  /\ rendering' = [rendering EXCEPT !.at = "returned"]
  /\ UNCHANGED << jobVars, branchVars, inferVars, singleVars, all >>

convertToTextCall ==
  /\ rendering.at = "call"
  /\ rendering.fn = "convertToText"
  /\ output' = TextHeader(data, rendering.includeMetadata)
  /\ rendering' = [rendering EXCEPT !.at = "getCurrentBranch"]
  /\ frame' = "call"
  /\ UNCHANGED << data, messageMap, branch, currentUuid, turns, returns >>
  /\ UNCHANGED << jobVars, inferVars, singleVars, all >>

convertToTextReturn ==
  /\ rendering.at = "getCurrentBranch"
  /\ rendering.fn = "convertToText"
  /\ frame = "returned"
  /\ output' = Trim(Add(output, TextMessages(BranchMessages(branch, data),
                                             FALSE, FALSE)))
  /\ rendering' = [rendering EXCEPT !.at = "returned"]
  /\ UNCHANGED << jobVars, branchVars, inferVars, singleVars, all >>

\* The body of the message u: content blocks with and without text, the flat
\* text alone, an empty list of blocks beside a flat text, a block with an
\* empty text, or nothing.  The texts of a message are its own.
Body(u) ==
  LET id == ToString(u)
      Block(text) == [text |-> text]
  IN  CASE u % 5 = 1 ->
             [content |-> Array(<< Block("a" \o id), Block(""), Block("b" \o id) >>),
              text |-> ""]
        [] u % 5 = 2 -> [content |-> NoArray, text |-> "t" \o id]
        [] u % 5 = 3 -> [content |-> Array(<< >>), text |-> "t" \o id]
        [] u % 5 = 4 -> [content |-> Array(<< Block(""), Block("a" \o id) >>),
                         text |-> "t" \o id]
        [] OTHER -> [content |-> NoArray, text |-> ""]

\* A message of a fetched record; every other one carries a created_at.
RenderMessage(u, p, sender) ==
  [uuid |-> u, parent_message_uuid |-> p, sender |-> sender,
   content |-> Body(u).content, text |-> Body(u).text,
   created_at |-> IF u % 2 = 1 THEN Iso(2025, 1, u, 0, 0)
                  ELSE NoDate("undefined")]

\* A fetched record: the tree of d, with a sender per message.
RenderRecord(d, senders, name) ==
  [chat_messages |->
     [d.chat_messages EXCEPT !.items =
        [k \in DOMAIN @ |->
           RenderMessage(@[k].uuid, @[k].parent_message_uuid,
                         senders[@[k].uuid])]],
   current_leaf_message_uuid |-> d.current_leaf_message_uuid,
   name |-> name,
   created_at |-> Iso(2025, 1, 1, 0, 0),
   updated_at |-> NoDate("unparseable"),
   model |-> Str("claude-3-opus-20240229")]

\* n messages, each the child of the one before (the parent of the first
\* names no message), the last the current leaf.
Chain(n) ==
  [chat_messages |->
     Array([k \in 1..n |-> Message(k, IF k = 1 THEN n + 1 ELSE k - 1)]),
   current_leaf_message_uuid |-> n]

SiblingIds == {1, 2, 3}

\* The records rendered: every chain of up to MaxChain messages with every
\* sender of each, and every record of up to three messages (with siblings,
\* cycles, a leaf that is not the last message, no chat_messages), human and
\* assistant in turn; with a name and without.
RenderRecords(longest) ==
  { RenderRecord(Chain(n), senders, name) :
      n \in 0..longest, senders \in [1..longest -> {"human", "assistant"}],
      name \in {"", "Trip"} }
  \cup
  { RenderRecord(d, [u \in SiblingIds |->
                       IF u % 2 = 1 THEN "human" ELSE "assistant"], name) :
      d \in Records(SiblingIds), name \in {"", "Trip"} }

\* No renderer is running.
NoRender ==
  /\ rendering = [fn |-> "none", includeMetadata |-> FALSE, at |-> "none"]
  /\ output = << >>

\* ------------------------------- exportConversation (page and content)
\* The fields of a fetched record.
RecordFields == DOMAIN RenderRecord(Chain(0), << >>, "")

\* Mutant: JSON.stringify with a list of property names for its replacer.
StringifyListed(d) == [f \in {"name", "model"} |-> d[f]]

\* JSON.stringify(data, null, 2), as the members of the object written: a
\* property whose value is undefined (of a record's, model alone can be) is
\* left out.
Stringify(d) ==
  [f \in DOMAIN d \ (IF d.model = NoField THEN {"model"} ELSE {}) |-> d[f]]

\* JSON.parse of such a text: the record with the members read.
Parse(json) ==
  [f \in RecordFields |-> IF f \in DOMAIN json THEN json[f] ELSE NoField]

\* data.model = inferModel(data)
AssignModel(d) == [d EXCEPT !.model = inferModel(d)]

\* The records a response body can hold: two messages in a chain, three with
\* siblings, a message that is its own parent, a current leaf that names no
\* message, no chat_messages; with and without a name, a model, a created_at
\* that is a date.
FetchedRecords ==
  { [RenderRecord(d, [u \in SiblingIds |->
                        IF u % 2 = 1 THEN "human" ELSE "assistant"], name)
       EXCEPT !.model = mdl, !.created_at = c] :
      d \in { Chain(2),
              [chat_messages |-> Array(<< Message(1, Dangling), Message(2, 1),
                                          Message(3, 1) >>),
               current_leaf_message_uuid |-> 3],
              [chat_messages |-> Array(<< Message(1, 1) >>),
               current_leaf_message_uuid |-> 1],
              [chat_messages |-> Array(<< Message(1, Dangling) >>),
               current_leaf_message_uuid |-> Dangling],
              [chat_messages |-> NoArray,
               current_leaf_message_uuid |-> Undefined] },
      name \in {"", "Trip"},
      mdl \in {Null, NoField, Str(""), Str("claude-3-opus-20240229")},
      c \in {Iso(2024, 10, 22, 0, 0), NoDate("unparseable")} }

\* switch (format): the renderer, the extension and the type.
FormatSwitch(fmt) ==
  CASE fmt = "markdown" ->
         [content |-> "convertToMarkdown", ext |-> ".md", type |-> "text/markdown"]
    [] fmt = "text" ->
         [content |-> "convertToText", ext |-> ".txt", type |-> "text/plain"]
    [] OTHER ->
         [content |-> "JSON.stringify", ext |-> ".json", type |-> "application/json"]

\* claude-${conversationName || conversationId} in the page,
\* claude-conversation-${data.name || request.conversationId} in the content
\* script.
SingleFileName(req, d) ==
  IF req.handler = "exportConversation"
  THEN << "claude-",
          IF req.conversationName # "" THEN req.conversationName
          ELSE req.conversationId,
          FormatSwitch(req.format).ext >>
  ELSE << "claude-conversation-",
          IF d.name # "" THEN d.name ELSE req.conversationId,
          FormatSwitch(req.format).ext >>

\* showToast(message, isError) in the page, sendResponse({ success }) in the
\* content script.
Report(handler, message, isError) ==
  IF handler = "exportConversation"
  THEN [by |-> "showToast", message |-> message, failed |-> isError]
  ELSE [by |-> "sendResponse", message |-> "", failed |-> isError]

\* downloadFile(content, filename, type), then the report of the success.
SingleDownload(content, d) ==
  /\ saved' = Append(saved, [content |-> content,
                             filename |-> SingleFileName(single, d),
                             type |-> FormatSwitch(single.format).type])
  /\ reports' = Append(reports, Report(single.handler, "Exported", FALSE))

\* catch (error) of the page, .catch(error => ...) of the content script.
SingleCatch(response) ==
  /\ reports' = Append(reports,
                       Report(single.handler, "Failed to export", TRUE))
  /\ single' = [single EXCEPT !.response = response, !.at = "ended"]
  /\ UNCHANGED << fetched, fetches, saved >>
  /\ UNCHANGED << jobVars, branchVars, inferVars, renderVars, all >>

\* The click on a row's Export button: the toast, then the request.
exportConversation ==
  /\ single.at = "idle"
  /\ single.handler = "exportConversation"
  /\ reports' = Append(reports, Report(single.handler, "Exporting", FALSE))
  /\ fetches' = fetches + 1
  /\ single' = [single EXCEPT !.at = "fetch"]
  /\ UNCHANGED << fetched, saved >>
  /\ UNCHANGED << jobVars, branchVars, inferVars, renderVars, all >>

\* The exportConversation message from the popup: fetchConversation(...).
onMessage ==
  /\ single.at = "idle"
  /\ single.handler = "onMessage"
  /\ fetches' = fetches + 1
  /\ single' = [single EXCEPT !.at = "fetch"]
  /\ UNCHANGED << fetched, saved, reports >>
  /\ UNCHANGED << jobVars, branchVars, inferVars, renderVars, all >>

\* Mutant: the response read whatever its status.
NotOkIgnored == FALSE

\* if (!response.ok) throw new Error(...)
NotOkThrows == TRUE

singleFetchResolves ==
  /\ single.at = "fetch"
  /\ \E ok \in BOOLEAN :
       IF ok \/ ~NotOkThrows
       THEN /\ single' = [single EXCEPT
                           !.response = IF ok THEN "ok" ELSE "not ok",
                           !.at = "json"]
            /\ UNCHANGED << fetched, fetches, saved, reports >>
            /\ UNCHANGED << jobVars, branchVars, inferVars, renderVars, all >>
       ELSE SingleCatch("not ok")

\* A network error.
singleFetchRejects ==
  /\ single.at = "fetch"
  /\ SingleCatch("rejected")

\* The body does not arrive or is no JSON.
singleJsonRejects ==
  /\ single.at = "json"
  /\ SingleCatch("no JSON")

\* The body parsed: infer the model, then render; the renderers run on their
\* own steps, JSON.stringify here.
singleJsonResolves ==
  /\ single.at = "json"
  /\ \E d \in FetchedRecords :
       /\ fetched' = << d >>
       /\ data' = AssignModel(d)
       /\ IF FormatSwitch(single.format).content = "JSON.stringify"
          THEN /\ SingleDownload(Stringify(AssignModel(d)), AssignModel(d))
               /\ single' = [single EXCEPT !.at = "ended"]
               /\ UNCHANGED renderVars
          ELSE /\ rendering' = [fn |-> FormatSwitch(single.format).content,
                                includeMetadata |-> single.includeMetadata,
                                at |-> "call"]
               /\ single' = [single EXCEPT !.at = "render"]
               /\ UNCHANGED << output, saved, reports >>
  /\ UNCHANGED << fetches, frame, messageMap, branch, currentUuid, turns,
                  returns >>
  /\ UNCHANGED << jobVars, inferVars, all >>

\* The renderer returned: download the document.
singleRendered ==
  /\ single.at = "render"
  /\ rendering.at = "returned"
  /\ SingleDownload(output, data)
  /\ single' = [single EXCEPT !.at = "ended"]
  /\ UNCHANGED << fetched, fetches >>
  /\ UNCHANGED << jobVars, branchVars, inferVars, renderVars, all >>

\* No single export is under way.
NoSingle ==
  /\ single = [handler |-> "none", conversationId |-> "", conversationName |-> "",
               format |-> "json", includeMetadata |-> FALSE,
               response |-> "none", at |-> "none"]
  /\ fetched = << >>
  /\ fetches = 0
  /\ saved = << >>
  /\ reports = << >>

\* ------------------------------ exportAllConversations (content script)
\* The handler is not running.
NoAll ==
  [at |-> "none", format |-> "json", includeMetadata |-> FALSE,
   listed |-> "no", conversations |-> << >>, i |-> 0, requests |-> << >>,
   fullConversations |-> << >>, count |-> 0, errors |-> << >>,
   saved |-> << >>, responses |-> << >>]

\* The head of either loop at conversation a.i: fetchConversation of the
\* next conversation, or past the last one the lines after the loop: for
\* json the download of the one file, then sendResponse with the count.
AllLoop(a) ==
  IF a.i <= Len(a.conversations)
  THEN [a EXCEPT !.requests = Append(@, a.conversations[a.i].uuid),
                 !.at = "fetch"]
  ELSE LET json == a.format = "json"
           count == IF json THEN Len(a.fullConversations) ELSE a.count
       IN  [a EXCEPT
              !.saved = IF json
                        THEN Append(@, [name |-> << "claude-all-conversations" >>,
                                        content |-> a.fullConversations,
                                        type |-> "application/json"])
                        ELSE @,
              !.responses = Append(@, [success |-> TRUE, count |-> count,
                                       warnings |-> a.errors # << >>]),
              !.at = "ended"]

\* .catch of the promise chain: sendResponse({ success: false, ... }).
AllOuterCatch(a) ==
  [a EXCEPT !.responses = Append(@, [success |-> FALSE, count |-> 0,
                                     warnings |-> FALSE]),
            !.at = "ended"]

\* Mutant: the loop body without its try/catch.
AllRethrows(a) == AllOuterCatch(a)

\* catch (error) of one conversation: errors.push(...), and the loop goes on.
AllCatch(a) ==
  AllLoop([a EXCEPT !.errors = Append(@, a.conversations[a.i].name),
                    !.i = @ + 1])

\* The exportAllConversations message: fetchAllConversations(request.orgId).
exportAllConversations ==
  /\ all.at = "idle"
  /\ all' = [all EXCEPT !.at = "list"]
  /\ UNCHANGED << jobVars, branchVars, inferVars, renderVars, singleVars >>

\* The list request settles: it fails (a network error, a response that is
\* not a success, a body that is no JSON), or the list arrives and the loop
\* takes its first turn.
fetchAllConversationsSettles ==
  /\ all.at = "list"
  /\ \/ all' = AllOuterCatch([all EXCEPT !.listed = "failed"])
     \/ \E n \in 0..MaxAllConvs :
          all' = AllLoop([all EXCEPT
                            !.listed = "ok",
                            !.conversations =
                               [k \in 1..n |-> ConversationSummary(k)],
                            !.i = 1])
  /\ UNCHANGED << jobVars, branchVars, inferVars, renderVars, singleVars >>

\* The request of conversation all.i settles.  fetchConversation throws (a
\* network error, a response that is not a success, a body that is no
\* JSON), or it returns the record: the model is inferred; for json the
\* record is kept and the delay starts, otherwise the renderer runs.
fetchConversationSettles ==
  /\ all.at = "fetch"
  /\ \/ /\ all' = AllCatch(all)
        /\ UNCHANGED << data, rendering >>
     \/ \E d \in {r \in FetchedRecords :
                    /\ r.name = "Trip"
                    /\ r.model = Null
                    /\ r.created_at = Iso(2024, 10, 22, 0, 0)} :
          /\ data' = AssignModel(d)
          /\ IF all.format = "json"
             THEN /\ all' = [all EXCEPT
                               !.fullConversations = Append(@, AssignModel(d)),
                               !.at = "setTimeout"]
                  /\ UNCHANGED rendering
             ELSE /\ all' = [all EXCEPT !.at = "render"]
                  /\ rendering' = [fn |-> FormatSwitch(all.format).content,
                                   includeMetadata |-> all.includeMetadata,
                                   at |-> "call"]
  /\ UNCHANGED << frame, messageMap, branch, currentUuid, turns, returns >>
  /\ UNCHANGED << output, jobVars, inferVars, singleVars >>

\* The renderer returned: downloadFile, count++, and the delay starts.
conversationRendered ==
  /\ all.at = "render"
  /\ rendering.at = "returned"
  /\ all' = [all EXCEPT
               !.saved = Append(@, [name |-> << "claude-" >>
                                               \o all.conversations[all.i].name
                                               \o << FormatSwitch(all.format).ext >>,
                                    content |-> output,
                                    type |-> FormatSwitch(all.format).type]),
               !.count = @ + 1,
               !.at = "setTimeout"]
  /\ UNCHANGED << jobVars, branchVars, inferVars, renderVars, singleVars >>

\* The 500 ms timer fired: the next turn of the loop.
delayOver ==
  /\ all.at = "setTimeout"
  /\ all' = AllLoop([all EXCEPT !.i = @ + 1])
  /\ UNCHANGED << jobVars, branchVars, inferVars, renderVars, singleVars >>

\* No export runs beside the call.
NoJob ==
  /\ InitJob
  /\ filteredConversations = << >>

Init == InitJob /\ NoCall /\ NoInfer /\ NoRender /\ NoSingle /\ all = NoAll

Next ==
  \/ exportAllFiltered
  \/ cancelExportClick
  \/ fetchResolvesOk
  \/ fetchResolvesNotOk
  \/ fetchRejects
  \/ jsonResolves
  \/ jsonRejects
  \/ promiseAllResolves
  \/ setTimeoutFires
  \/ generateAsyncUpdate
  \/ generateAsyncResolves
  \/ generateAsyncRejects

\* One batch export, with every outcome of every request, every order of
\* completion and a click on Cancel at any moment.  The progress modal is
\* shown for the whole run; the search, filter and sort handlers, which
\* replace filteredConversations, take no step in this specification.
Spec == Init /\ [][Next]_vars

\* What the browser does on its own: responses arrive, bodies are read,
\* promises resolve, timers fire, the zip generation ends.
BrowserStep ==
  \/ fetchResolvesOk
  \/ fetchResolvesNotOk
  \/ fetchRejects
  \/ jsonResolves
  \/ jsonRejects
  \/ promiseAllResolves
  \/ setTimeoutFires
  \/ generateAsyncUpdate
  \/ generateAsyncResolves
  \/ generateAsyncRejects

\* Every issued fetch settles, every timer fires, every pending promise is
\* resolved or rejected; the user may never click.
FairInit == Init /\ Len(filteredConversations) <= MaxFairConvs

FairSpec == FairInit /\ [][Next]_vars /\ WF_vars(BrowserStep)

\* getCurrentBranch on every record of Records(Uuids).
BranchInit ==
  NoJob /\ InitBranch /\ NoInfer /\ NoRender /\ NoSingle /\ all = NoAll

BranchNext ==
  \/ getCurrentBranchCall
  \/ whileTurn
  \/ whileExit

BranchSpec == BranchInit /\ [][BranchNext]_vars

\* Up to MaxCalls calls of getCurrentBranch on one record.
AgainSpec == BranchInit /\ [][BranchNext \/ getCurrentBranchAgain]_vars

\* A running JavaScript function takes its next step.
FairBranchSpec == BranchSpec /\ WF_vars(BranchNext)

\* inferModel on every conversation of Conversations.
InferInit ==
  /\ NoJob /\ NoCall /\ NoRender /\ NoSingle /\ all = NoAll
  /\ conversation \in Conversations
  /\ inferred = << >>
  /\ pageInferred = << >>

InferNext == inferModelCall

InferSpec == InferInit /\ [][InferNext]_vars

\* Both copies of inferModel on every conversation of Conversations.
CopiesSpec == InferInit /\ [][inferModelCall \/ pageInferModelCall]_vars

\* convertToMarkdown and convertToText on every record of RenderRecords, with
\* and without metadata; getCurrentBranch runs inside them.
RenderInit ==
  /\ NoJob /\ NoInfer /\ NoSingle /\ all = NoAll
  /\ rendering \in [fn : {"convertToMarkdown", "convertToText"},
                    includeMetadata : BOOLEAN, at : {"call"}]
  /\ output = << >>
  /\ data \in RenderRecords(MaxChain)
  /\ frame = "none"
  /\ messageMap = << >>
  /\ branch = << >>
  /\ currentUuid = Undefined
  /\ turns = 0
  /\ returns = << >>

RenderNext ==
  \/ convertToMarkdownCall
  \/ convertToTextCall
  \/ getCurrentBranchCall
  \/ whileTurn
  \/ whileExit
  \/ convertToMarkdownReturn
  \/ convertToTextReturn

RenderSpec == RenderInit /\ [][RenderNext]_vars

\* One export of one conversation, from the page or from the content script,
\* with every outcome of its request; the renderers and getCurrentBranch run
\* inside it.
SingleInit ==
  /\ NoJob /\ NoCall /\ NoInfer /\ NoRender /\ all = NoAll
  /\ single \in [handler : {"exportConversation", "onMessage"},
                 conversationId : {"c1"}, conversationName : {"", "Trip"},
                 format : Formats, includeMetadata : BOOLEAN,
                 response : {"none"}, at : {"idle"}]
  /\ fetched = << >>
  /\ fetches = 0
  /\ saved = << >>
  /\ reports = << >>

SingleNext ==
  \/ exportConversation
  \/ onMessage
  \/ singleFetchResolves
  \/ singleFetchRejects
  \/ singleJsonRejects
  \/ singleJsonResolves
  \/ convertToMarkdownCall
  \/ convertToTextCall
  \/ getCurrentBranchCall
  \/ whileTurn
  \/ whileExit
  \/ convertToMarkdownReturn
  \/ convertToTextReturn
  \/ singleRendered

SingleSpec == SingleInit /\ [][SingleNext]_vars

\* One exportAllConversations message to the content script, with every
\* outcome of the list request and of each conversation's; the renderers and
\* getCurrentBranch run inside it.
AllInit ==
  /\ NoJob /\ NoCall /\ NoInfer /\ NoRender /\ NoSingle
  /\ all \in { [NoAll EXCEPT !.at = "idle", !.format = fmt,
                             !.includeMetadata = meta] :
                 fmt \in Formats, meta \in BOOLEAN }

AllNext ==
  \/ exportAllConversations
  \/ fetchAllConversationsSettles
  \/ fetchConversationSettles
  \/ convertToMarkdownCall
  \/ convertToTextCall
  \/ getCurrentBranchCall
  \/ whileTurn
  \/ whileExit
  \/ convertToMarkdownReturn
  \/ convertToTextReturn
  \/ conversationRendered
  \/ delayOver

\* Every request settles, every timer fires and a running function takes
\* its next step.
FairAllSpec == AllInit /\ [][AllNext]_vars /\ WF_vars(AllNext)

\* One batch export of a list of up to MaxUIConvs conversations, with the
\* search box, the model filter and the sort dropdown used at any moment.
UIInit == Init /\ Len(allConversations) <= MaxUIConvs

UINext ==
  \/ Next
  \/ searchInputInput
  \/ clearSearchClick
  \/ modelFilterChange
  \/ sortByChange

UISpec == UIInit /\ [][UINext]_vars

\* =============================================================== claims
InFlight == {k \in DOMAIN tasks : tasks[k].st \in InFlightStates}

\* The uuids of a list of conversations.
UuidsOf(list) == [k \in DOMAIN list |-> list[k].uuid]

\* The conversations of the input list whose fetch failed.
FailedInput == {k \in DOMAIN input : input[k].uuid \in fetchFailed}

\* How often a name occurs in a list of names.
Occurrences(names, nm) == Cardinality({k \in DOMAIN names : names[k] = nm})

\* The entry export_summary.json of an archive.
SummaryOf(entries) == (CHOOSE e \in entries : e.name = SummaryName).content

\* The summary counts every conversation of the input once: the failed ones
\* by name, the others as succeeded.
SummaryRight(entries) ==
  /\ \E e \in entries : e.name = SummaryName
  /\ LET sm == SummaryOf(entries)
     IN  /\ sm.kind = "summary"
         /\ sm.total_conversations = Len(input)
         /\ sm.failed_exports = Cardinality(FailedInput)
         /\ sm.successful_exports = Len(input) - Cardinality(FailedInput)
         /\ sm.successful_exports + sm.failed_exports = sm.total_conversations
         /\ Len(sm.failed_conversations) = Cardinality(FailedInput)
         /\ \A k \in DOMAIN input :
              Occurrences(sm.failed_conversations, input[k].name)
                = Cardinality({j \in FailedInput : input[j].name = input[k].name})

\* The loop has ended without a cancellation.
LoopDone == pc = "generateAsync" \/ (pc = "ended" /\ outcome # "cancelled")

\* C1: whatever set F of conversations fails to be fetched, a job that is not
\* cancelled builds an archive whose summary reports n - |F| succeeded, |F|
\* failed, the names of F (each conversation once) and a total of n, and it
\* downloads that archive unless the zip generation itself fails.
C1_SummaryCountsFailures ==
  /\ LoopDone => SummaryRight(zip)
  /\ outcome = "archive" =>
       /\ Len(downloads) = 1
       /\ downloads[1].entries = zip
  /\ (pc = "ended" /\ cancelledAt.pc = "never") =>
       \/ outcome = "archive"
       \/ outcome = "export failed" /\ toast[2] = "generateAsync"

\* C1 witness: 7 conversations, only #5 fails: succeeded 6, failed 1.
C1_Witness ==
  /\ outcome = "archive"
  /\ Len(input) = 7
  /\ fetchFailed = {5}
  /\ SummaryOf(downloads[1].entries).successful_exports = 6
  /\ SummaryOf(downloads[1].entries).failed_exports = 1
  /\ SummaryOf(downloads[1].entries).failed_conversations = <<input[5].name>>

\* C2: a failed conversation aborts neither its batch nor the job: when the
\* loop ends without a cancellation every conversation of the list has been
\* fetched, in order, and has run to its own end, and the error path of the
\* whole export is only ever taken for a failure of the zip generation.
C2_FailureIsolated ==
  /\ LoopDone =>
       /\ UuidsOf([k \in DOMAIN tasks |-> tasks[k].conv]) = UuidsOf(input)
       /\ \A k \in DOMAIN tasks : tasks[k].st \in {"ok", "failed"}
  /\ outcome = "export failed" => toast[2] = "generateAsync"
  /\ \A k \in DOMAIN tasks : tasks[k].st # "rejected"

\* C2 witness: the first conversation of a 7-list failed, and the job went
\* on to fetch the other six and to download the archive.
C2_Witness ==
  /\ outcome = "archive"
  /\ Len(input) = 7
  /\ tasks[1].st = "failed"
  /\ \A k \in 2..7 : tasks[k].st = "ok"

\* The tasks of the batch started last.
LastBatch ==
  IF batches = << >> THEN {}
  ELSE (Len(tasks) - Len(batches[Len(batches)]) + 1)..Len(tasks)

\* C3: every task in flight belongs to the batch started last (a batch is
\* started only when the tasks of every earlier batch have settled), so at
\* most 3 requests are in flight at any moment.
C3_BatchesDoNotOverlap ==
  /\ InFlight \subseteq LastBatch
  /\ Cardinality(InFlight) <= 3

\* C3 witness: in the second batch the third task has settled while the
\* first is still in flight.
C3_Witness ==
  /\ Len(tasks) = 6
  /\ tasks[6].st = "ok"
  /\ tasks[4].st = "fetch"
  /\ tasks[5].st = "json"

\* C4: the batches are the consecutive slices of 3 of the input list, in
\* order, and a job that is not cancelled takes ceil(n/3) of them: all of
\* size 3 except the last, which holds the remainder.
C4_BatchesAreSlices ==
  /\ \A b \in DOMAIN batches :
       batches[b] = SubSeq(input, 3 * (b - 1) + 1, Min(3 * b, Len(input)))
  /\ LoopDone =>
       /\ Len(batches) = (Len(input) + 2) \div 3
       /\ \A b \in DOMAIN batches :
            Len(batches[b]) = IF b < Len(batches) THEN 3
                              ELSE Len(input) - 3 * (Len(batches) - 1)
       /\ \A b \in DOMAIN batches : Len(batches[b]) \in 1..3

\* C4 witness: 7 conversations went in batches of 3, 3 and 1.
C4_Witness ==
  /\ pc = "ended"
  /\ outcome = "archive"
  /\ Len(input) = 7
  /\ Len(batches) = 3
  /\ Len(batches[1]) = 3
  /\ Len(batches[2]) = 3
  /\ Len(batches[3]) = 1

\* C5: once Cancel has been clicked no further batch is started (the tasks
\* started are those started at the click), and the job ends only when the
\* tasks of the batch in flight have all run to their own end.
C5_CancelStopsBatches ==
  /\ cancelExport => Len(tasks) = cancelledAt.tasks
  /\ pc = "ended" =>
       \A k \in DOMAIN tasks : tasks[k].st \in {"ok", "failed"}

\* C5 witness: a job of 3 batches cancelled while batch 1 was in flight ended
\* with the 3 fetches of batch 1 settled and none of batch 2 or 3 issued.
C5_Witness ==
  /\ pc = "ended"
  /\ outcome = "cancelled"
  /\ Len(input) = 7
  /\ cancelledAt.pc = "Promise.all"
  /\ Len(tasks) = 3
  /\ tasks[1].st = "ok"
  /\ tasks[2].st = "failed"

\* C6 (as claimed): once Cancel has been clicked in a run, that run downloads
\* no archive.
C6_CancelDiscardsOutputs == cancelExport => downloads = << >>

\* The three ways a run ends, each with its own trace on the page.
EndedArchive ==
  /\ outcome = "archive"
  /\ Len(downloads) = 1
  /\ toast[3] = FALSE

EndedCancelled ==
  /\ outcome = "cancelled"
  /\ downloads = << >>
  /\ toast = <<"Export cancelled", "", TRUE>>

EndedFailed ==
  /\ outcome = "export failed"
  /\ downloads = << >>
  /\ toast[1] = "Export failed"

Items == data.chat_messages.items

Leaf == data.current_leaf_message_uuid

MsgUuids == {Items[k].uuid : k \in DOMAIN Items}

\* An identifier resolves when it is present and names a message.
Resolves(u) == u # Undefined /\ u \in MsgUuids

MsgOf(u) == CHOOSE m \in {Items[k] : k \in DOMAIN Items} : m.uuid = u

\* The messages met from u along the parent identifiers, in at most n steps.
RECURSIVE AncestorsFrom(_, _)
AncestorsFrom(u, n) ==
  IF n = 0 \/ ~Resolves(u) THEN {}
  ELSE {u} \cup AncestorsFrom(MsgOf(u).parent_message_uuid, n - 1)

\* No message is an ancestor of itself.
Acyclic ==
  \A u \in MsgUuids :
    u \notin AncestorsFrom(MsgOf(u).parent_message_uuid, Cardinality(MsgUuids))

\* b is the ancestor chain of the current leaf, root first.
IsAncestorChain(b) ==
  /\ Len(b) >= 1
  /\ b[Len(b)] = MsgOf(Leaf)
  /\ \A j \in 1..(Len(b) - 1) :
       /\ Resolves(b[j + 1].parent_message_uuid)
       /\ b[j] = MsgOf(b[j + 1].parent_message_uuid)
  /\ ~Resolves(b[1].parent_message_uuid)
  /\ \A j, k \in 1..Len(b) : j # k => b[j] # b[k]
  /\ {b[j].uuid : j \in 1..Len(b)} = AncestorsFrom(Leaf, Cardinality(MsgUuids))

\* C8: on a record whose parent identifiers are acyclic and whose current
\* leaf resolves, the call returns the ancestor chain of the leaf, root first
\* and root included, each message once and no other message, after at most
\* one turn of the loop per message; a dangling parent ends the chain.
C8_BranchIsAncestorChain ==
  (data.chat_messages.array /\ Acyclic /\ Resolves(Leaf)) =>
     /\ frame # "threw"
     /\ turns <= Cardinality(MsgUuids)
     /\ frame = "returned" => IsAncestorChain(branch)

\* C8 witness: messages 1 (its parent names no message), 2 and 3 (both
\* children of 1), leaf 2: the call returned <<1, 2>>, without the sibling 3.
C8_Witness ==
  /\ frame = "returned"
  /\ Items = << Message(1, Dangling), Message(2, 1), Message(3, 1) >>
  /\ Leaf = 2
  /\ branch = << Message(1, Dangling), Message(2, 1) >>

\* C9 (as claimed): every call returns, cycles in the parent identifiers
\* included.
C9_WalkTerminates == <>(frame \in {"returned", "threw"})

\* The collection is absent or empty, or the current leaf is absent or names
\* no message.
NothingToWalk ==
  \/ ~data.chat_messages.array
  \/ Items = << >>
  \/ Leaf = Undefined
  \/ Leaf \notin MsgUuids

\* C10: when the collection is absent or empty or the current leaf is absent
\* or names no message, the call raises nothing, takes no turn of the loop
\* and returns the empty sequence.
C10_EmptyBranch ==
  NothingToWalk =>
     /\ frame # "threw"
     /\ branch = << >>
     /\ turns = 0
     /\ frame = "while" => ~Resolves(currentUuid)

\* C10 witness: the call returned the empty sequence for a leaf that names
\* none of the two messages of the record.
C10_Witness ==
  /\ frame = "returned"
  /\ Len(Items) = 2
  /\ Leaf = Dangling
  /\ branch = << >>

\* --------------------------------------------------- inferModel claims
\* The call has returned.
Inferred == inferred # << >>

\* The entries of the timeline in effect at time t.
InEffect(t) ==
  { k \in DOMAIN DEFAULT_MODEL_TIMELINE :
      t # NaN /\ DEFAULT_MODEL_TIMELINE[k].date <= t }

\* The entry in effect at t with the latest date.
Latest(t) ==
  CHOOSE k \in InEffect(t) :
    \A j \in InEffect(t) :
      DEFAULT_MODEL_TIMELINE[j].date <= DEFAULT_MODEL_TIMELINE[k].date

TimelineModels ==
  { DEFAULT_MODEL_TIMELINE[k].model : k \in DOMAIN DEFAULT_MODEL_TIMELINE }

\* C11 (as claimed): inferModel returns every non-null model value unchanged,
\* the empty string included.
C11_IdentityOnNonNull ==
  (Inferred /\ conversation.model.t = "string") =>
     inferred = << conversation.model >>

\* C11 (amended): inferModel returns every non-empty model string unchanged,
\* whatever created_at is; an empty model string is treated like a null one
\* and replaced by a model of the timeline.
C11_IdentityOnNonEmpty ==
  Inferred =>
     /\ ToBoolean(conversation.model) => inferred = << conversation.model >>
     /\ conversation.model = Str("") =>
          /\ inferred # << conversation.model >>
          /\ inferred[1].s \in TimelineModels

\* C11 witness: a conversation of 2025-11-01 whose model is
\* claude-3-opus-20240229 kept that model, which is none of the timeline.
C11_Witness ==
  /\ Inferred
  /\ conversation.model = Str("claude-3-opus-20240229")
  /\ conversation.created_at = Iso(2025, 11, 1, 0, 0)
  /\ inferred = << Str("claude-3-opus-20240229") >>
  /\ "claude-3-opus-20240229" \notin TimelineModels

\* C12: for a record without a model (null, missing or empty) whose created_at
\* is a date not before the first entry, inferModel returns the model of the
\* latest entry whose date is at or before created_at: the entry itself when
\* created_at equals its date, the last entry when created_at is after it.
C12_LatestEntryInEffect ==
  LET t == NewDate(conversation.created_at)
      last == Len(DEFAULT_MODEL_TIMELINE)
  IN  (Inferred /\ ~ToBoolean(conversation.model) /\ InEffect(t) # {}) =>
         /\ inferred = << Str(DEFAULT_MODEL_TIMELINE[Latest(t)].model) >>
         /\ \A k \in DOMAIN DEFAULT_MODEL_TIMELINE :
              t = DEFAULT_MODEL_TIMELINE[k].date =>
                inferred = << Str(DEFAULT_MODEL_TIMELINE[k].model) >>
         /\ t > DEFAULT_MODEL_TIMELINE[last].date =>
              inferred = << Str(DEFAULT_MODEL_TIMELINE[last].model) >>

\* C12 witness: a null model and created_at = 2024-10-22T00:00:00Z, the date
\* of the third entry, gave the third entry's model, not the second's.
C12_Witness ==
  /\ Inferred
  /\ conversation.model = Null
  /\ conversation.created_at = Iso(2024, 10, 22, 0, 0)
  /\ inferred = << Str("claude-3-5-sonnet-20241022") >>

\* C13: inferModel returns a non-empty model string for every record; without
\* a model in the record it is a model of the timeline, and the first entry's
\* when created_at is before every entry, null, missing or no date.
C13_NeverNull ==
  LET t == NewDate(conversation.created_at)
  IN  Inferred =>
         /\ Len(inferred) = 1
         /\ ToBoolean(inferred[1])
         /\ ~ToBoolean(conversation.model) =>
              /\ inferred[1].s \in TimelineModels
              /\ InEffect(t) = {} =>
                   inferred = << Str(DEFAULT_MODEL_TIMELINE[1].model) >>

\* C13 witness: a null model and a created_at that is no date gave the first
\* entry's model.
C13_Witness ==
  /\ Inferred
  /\ conversation.model = Null
  /\ conversation.created_at = NoDate("unparseable")
  /\ inferred = << Str("claude-3-sonnet-20240229") >>

\* ----------------------------------------------------- renderer claims
Rendered(fn) == rendering.fn = fn /\ rendering.at = "returned"

MarkdownLabels == {"**You**", "**Claude**"}

TextLabels == {"Human", "Assistant", "H", "A"}

\* Where the message sections of a rendered document start.
LabelPositions(doc) ==
  {j \in DOMAIN doc : doc[j] \in MarkdownLabels \cup TextLabels}

\* The section piece j of a document lies in: 0 is the head of the document.
SectionOf(doc, j) == Cardinality({p \in LabelPositions(doc) : p <= j})

\* The labels of a document, in order.
LabelsOf(doc) == SelectSeq(doc, LAMBDA piece : piece \in TextLabels)

\* The label the claim gives message k of a branch.
LabelClaimed(b, k) ==
  LET human == b[k].sender = "human"
      earlier == \E j \in 1..(k - 1) : (b[j].sender = "human") = human
  IN  IF human THEN (IF earlier THEN "H" ELSE "Human")
      ELSE (IF earlier THEN "A" ELSE "Assistant")

\* C14: in the text convertToText returns, the label of message k of the
\* branch is Human or Assistant when no earlier message of the branch has its
\* sender, and H or A otherwise: one label per message, in branch order.
C14_LabelsPerSender ==
  Rendered("convertToText") =>
     LabelsOf(output) = [k \in DOMAIN branch |-> LabelClaimed(branch, k)]

\* C14 witness: the senders human, assistant, human, human, assistant gave
\* the labels Human, Assistant, H, H, A.
C14_Witness ==
  /\ Rendered("convertToText")
  /\ [k \in DOMAIN branch |-> branch[k].sender]
       = << "human", "assistant", "human", "human", "assistant" >>
  /\ LabelsOf(output) = << "Human", "Assistant", "H", "H", "A" >>

MarkdownHeaderLines == {"**Created:** ", "**Updated:** ", "**Model:** "}

TextHeaderLines == {"Created: ", "Updated: ", "Model: "}

TimestampMarks == {"*", "*\n\n"}

\* How often a piece occurs in a document.
Count(doc, piece) == Cardinality({j \in DOMAIN doc : doc[j] = piece})

\* C15: a document built with includeMetadata = false holds no created,
\* updated or model line and no message timestamp; one built with
\* includeMetadata = true holds each header line of its format once, before
\* its first message section.
C15_MetadataOnlyOnRequest ==
  rendering.at \in {"getCurrentBranch", "returned"} =>
     LET lines == IF rendering.fn = "convertToMarkdown"
                  THEN MarkdownHeaderLines ELSE TextHeaderLines
     IN  IF rendering.includeMetadata
         THEN \A line \in lines :
                /\ Count(output, line) = 1
                /\ \A j \in DOMAIN output :
                     output[j] = line => SectionOf(output, j) = 0
         ELSE \A j \in DOMAIN output :
                output[j] \notin MarkdownHeaderLines \cup TextHeaderLines
                                   \cup TimestampMarks

\* C15 witness: markdown without metadata of a branch of two messages, the
\* first of which carries a created_at.
C15_Witness ==
  /\ Rendered("convertToMarkdown")
  /\ ~rendering.includeMetadata
  /\ Len(branch) = 2
  /\ DateGiven(branch[1].created_at)
  /\ Count(output, "---\n\n") = 2

\* The texts of a message: of its content blocks and its flat text.
OwnTexts(message) ==
  ({message.text}
     \cup {message.content.items[k].text : k \in DOMAIN message.content.items})
  \ {""}

\* The label of a sender.
IsLabelOf(piece, sender) ==
  IF sender = "human" THEN piece \in {"**You**", "Human", "H"}
  ELSE piece \in {"**Claude**", "Assistant", "A"}

\* C16: the message sections of the document returned by convertToMarkdown
\* or convertToText are the elements of the branch getCurrentBranch returned,
\* one section each and in its order: the texts of a message occur in the
\* section of its place in the branch and nowhere else, no text of a message
\* off the path from the current leaf to the root occurs at all, and an empty
\* branch gives no section.
C16_OnlyTheBranch ==
  (rendering.at = "returned") =>
     /\ Cardinality(LabelPositions(output)) = Len(branch)
     /\ \A j \in LabelPositions(output) :
          IsLabelOf(output[j], branch[SectionOf(output, j)].sender)
     /\ \A j \in DOMAIN output : \A k \in DOMAIN Items :
          output[j] \in OwnTexts(Items[k]) =>
            /\ SectionOf(output, j) >= 1
            /\ branch[SectionOf(output, j)] = Items[k]
            /\ Items[k].uuid \in AncestorsFrom(Leaf, Cardinality(MsgUuids))

\* C16 witness: messages 1, 2 and 3, both 2 and 3 children of 1, current leaf
\* 3: the markdown has two sections, with the text of 1 and without that of 2.
C16_Witness ==
  /\ Rendered("convertToMarkdown")
  /\ [k \in DOMAIN Items |-> Items[k].parent_message_uuid] = << Dangling, 1, 1 >>
  /\ Leaf = 3
  /\ Cardinality(LabelPositions(output)) = 2
  /\ Count(output, "a1") = 1
  /\ Count(output, "t2") = 0
  /\ "t2" \in OwnTexts(Items[2])

\* ------------------------------------------------ single export claims
\* The reports of an outcome: every one but the toast of the start.
Outcomes == SelectSeq(reports, LAMBDA r : r.message # "Exporting")

\* C17: a single export issues one request and never a second; when the
\* request fails, the response is not a success or the body is no JSON, the
\* export ends with no file downloaded and one report, of a failure (an error
\* toast, or sendResponse with success = false); otherwise, when it ends, one
\* file has been downloaded and there is one report, of a success.  A file is
\* only ever downloaded after a success response.
C17_SingleExportOutcome ==
  /\ fetches <= 1
  /\ single.at \notin {"none", "idle"} => fetches = 1
  /\ Len(saved) <= 1
  /\ Len(Outcomes) <= 1
  /\ saved # << >> => single.response = "ok"
  /\ single.at = "ended" =>
       /\ Len(Outcomes) = 1
       /\ IF single.response = "ok" /\ fetched # << >>
          THEN /\ Len(saved) = 1
               /\ ~Outcomes[1].failed
          ELSE /\ saved = << >>
               /\ Outcomes[1].failed
       /\ Outcomes[1].by = IF single.handler = "exportConversation"
                           THEN "showToast" ELSE "sendResponse"

\* C17 witness: the content script answered a request whose response was not
\* a success with one sendResponse of success = false and no download.
C17_Witness ==
  /\ single.at = "ended"
  /\ single.handler = "onMessage"
  /\ single.response = "not ok"
  /\ fetches = 1
  /\ saved = << >>
  /\ reports = << Report("onMessage", "", TRUE) >>

Succeeded == {k \in DOMAIN tasks : tasks[k].st = "ok"}

\* C18 (as claimed): the archive a run downloads holds one entry per succeeded
\* conversation, under its sanitized name and the extension of the format,
\* with the document rendered for that conversation, and the summary under
\* export_summary.json: successful_exports + 1 entries in all.
C18_ArchiveHoldsAll ==
  outcome = "archive" =>
     LET entries == downloads[1].entries
     IN  /\ \A k \in Succeeded :
              [name |-> FileName(tasks[k].conv, format),
               content |-> Content(tasks[k].conv, format, includeMetadata)]
                \in entries
         /\ \E e \in entries : e.name = SummaryName /\ e.content.kind = "summary"
         /\ Cardinality(entries) = SummaryOf(entries).successful_exports + 1

\* C20 (as claimed): the list of a job is the list of the table at the click,
\* whatever the search box, the model filter and the sort dropdown do while
\* the job is suspended: no conversation outside that list is fetched, none
\* is fetched twice, and when the loop ends without a cancellation every
\* conversation of the list has been fetched, in the order of the list.
C20_JobListImmutable ==
  /\ \A k \in DOMAIN tasks : \E j \in DOMAIN input : tasks[k].conv = input[j]
  /\ \A j, k \in DOMAIN tasks : j # k => tasks[j].conv.uuid # tasks[k].conv.uuid
  /\ LoopDone => UuidsOf([k \in DOMAIN tasks |-> tasks[k].conv]) = UuidsOf(input)

\* The batches whose Promise.all has resolved.
BatchesSettled ==
  IF pc = "Promise.all" THEN Len(batches) - 1 ELSE Len(batches)

\* The tasks that ended in state st.
TasksIn(st) == {k \in DOMAIN tasks : tasks[k].st = st}

\* C21: the progress shown after batch k reports succeeded + failed =
\* min(batchSize * k, total) out of the total of the click, whatever the
\* order in which the tasks of a batch end; no count and no failed name is
\* lost; and during a job total does not change and neither counter
\* decreases.
C21_ProgressCounts ==
  /\ [](/\ BatchesSettled = 0 => progressStats = << >>
        /\ BatchesSettled > 0 =>
             /\ progressStats[1] + progressStats[2]
                  = Min(batchSize * BatchesSettled, total)
             /\ progressStats[3] = total
             /\ pc # "Promise.all" =>
                  progressStats = << completed, failed, total >>
        /\ pc # "idle" => total = Len(input)
        /\ completed = Cardinality(TasksIn("ok"))
        /\ failed = Cardinality(TasksIn("failed"))
        /\ Len(failedConversations) = failed
        /\ \A k \in TasksIn("failed") :
             Cardinality({j \in DOMAIN failedConversations :
                            failedConversations[j] = tasks[k].conv.name})
               = Cardinality({j \in TasksIn("failed") :
                                tasks[j].conv.name = tasks[k].conv.name}))
  /\ [][pc # "idle" =>
          /\ total' = total
          /\ completed' >= completed
          /\ failed' >= failed
          /\ Len(failedConversations') >= Len(failedConversations)]_vars

\* C21 witness: the progress after the second batch of a 7-list, 4 succeeded
\* and 2 failed out of 7, the third conversation having failed before the
\* first.
C21_Witness ==
  /\ pc = "setTimeout"
  /\ Len(batches) = 2
  /\ progressStats = << 4, 2, 7 >>
  /\ failedConversations = << input[3].name, input[1].name >>

\* The texts of the messages of the record rendered.
RecordTexts == UNION {OwnTexts(Items[k]) : k \in DOMAIN Items}

\* The message texts of section k of a document, in order.
SectionTexts(doc, k) ==
  LET at == {j \in DOMAIN doc : SectionOf(doc, j) = k /\ doc[j] \in RecordTexts}
  IN  [n \in 1..Cardinality(at) |-> doc[Nth(at, n)]]

\* The body the claim gives a message.
BodyClaimed(message) ==
  IF message.content.array
  THEN LET blocks == message.content.items
           withText == {k \in DOMAIN blocks : blocks[k].text # ""}
       IN  [n \in 1..Cardinality(withText) |-> blocks[Nth(withText, n)].text]
  ELSE IF message.text # "" THEN << message.text >>
  ELSE << >>

\* C22: in the document of either renderer the body of a message with
\* content blocks is the texts of its blocks that carry one, in block order
\* and once each, and no flat text, even when the list of blocks is empty;
\* the body of a message without content blocks is its flat text.
C22_BodyFromBlocks ==
  (rendering.at = "returned") =>
     \A k \in DOMAIN branch :
       SectionTexts(output, k) = BodyClaimed(branch[k])

\* C22 witness: the text of a chain of five messages: both texts of the
\* blocks of the first in order, the flat text of the second, nothing of the
\* third (an empty list of blocks beside a flat text), the block text and not
\* the flat text of the fourth, nothing of the fifth.
C22_Witness ==
  /\ Rendered("convertToText")
  /\ Len(branch) = 5
  /\ branch[3].content = Array(<< >>) /\ branch[3].text = "t3"
  /\ SelectSeq(output, LAMBDA piece : piece \in RecordTexts)
       = << "a1", "b1", "t2", "a4" >>

\* C23: the calls of getCurrentBranch on one record return equal sequences,
\* and no step of a call changes the record: its messages, any field of one,
\* or its current leaf.
C23_IdempotentAndPure ==
  /\ [](\A m, n \in DOMAIN returns : returns[m] = returns[n])
  /\ [][data' = data]_vars

\* C23 witness: three calls on a record of three messages in a chain have
\* returned, each the three messages from the root to the leaf.
C23_Witness ==
  /\ Len(returns) = 3
  /\ returns[3] = data.chat_messages.items
  /\ UuidsOf(returns[1]) = << 1, 2, 3 >>
  /\ data.current_leaf_message_uuid = 3

\* C24 (as claimed): from the click on Export All to the end of the run the
\* button is disabled, whatever the search box, the model filter and the
\* sort dropdown do meanwhile, so that no second click can start a second
\* run beside the first.
C24_ButtonDisabledDuringJob ==
  pc \notin {"idle", "ended"} => button.disabled

\* C26: the inferModel of the content script and the inferModel of the
\* browse page return the same model for every conversation, whatever its
\* model and its created_at.
C26_CopiesAgree ==
  (inferred # << >> /\ pageInferred # << >>) => inferred = pageInferred

\* C26 witness: both copies gave claude-sonnet-4-5-20250929 to a conversation
\* without a model created on 2025-10-31.
C26_Witness ==
  /\ conversation.model = Null
  /\ conversation.created_at = Iso(2025, 10, 31, 0, 0)
  /\ inferred = << Str("claude-sonnet-4-5-20250929") >>
  /\ pageInferred = inferred

\* The conversations the handler is done with: exported or recorded as
\* failed.
AllDone ==
  (IF all.format = "json" THEN Len(all.fullConversations) ELSE all.count)
    + Len(all.errors)

\* The record rendered holds a message that is its own parent: the walk of
\* getCurrentBranch from it never ends.
OwnParent ==
  \E k \in DOMAIN data.chat_messages.items :
    data.chat_messages.items[k].parent_message_uuid
      = data.chat_messages.items[k].uuid

\* C25: the content script's exportAllConversations requests the
\* conversations of the list in list order, the next one only when the one
\* before is done (so at most one request is in flight); sendResponse is
\* called at most once, and only at the end of the handler; when the list
\* arrived, a handler that ends has requested every conversation of the list,
\* failures included, and answers success = true with a count that, with the
\* errors recorded, makes the length of the list; when the list request
\* failed it answers success = false, requests nothing and downloads nothing.
\* And the handler does end, so that sendResponse is called, unless a
\* renderer is caught in a record whose parents form a cycle.
C25_OneAtATimeOneResponse ==
  /\ [](/\ all.requests
             = SubSeq(UuidsOf(all.conversations), 1, Len(all.requests))
        /\ Len(all.requests) <= AllDone + 1
        /\ all.at = "fetch" => Len(all.requests) = AllDone + 1
        /\ Len(all.responses) = (IF all.at = "ended" THEN 1 ELSE 0)
        /\ (all.at = "ended" /\ all.listed = "ok") =>
             /\ all.responses[1].success
             /\ all.requests = UuidsOf(all.conversations)
             /\ all.responses[1].count + Len(all.errors)
                  = Len(all.conversations)
             /\ all.responses[1].warnings = (all.errors # << >>)
             /\ IF all.format = "json"
                THEN /\ Len(all.saved) = 1
                     /\ Len(all.saved[1].content) = all.responses[1].count
                ELSE Len(all.saved) = all.responses[1].count
        /\ (all.at = "ended" /\ all.listed = "failed") =>
             /\ ~all.responses[1].success
             /\ all.saved = << >>
             /\ all.requests = << >>)
  /\ (all.at = "idle") ~> (all.at = "ended" \/ (all.at = "render" /\ OwnParent))

\* C25 witness: of a list of three the second conversation failed; the
\* handler went on to the third, downloaded two markdown documents and
\* answered success with count 2 and a warning.
C25_Witness ==
  /\ all.at = "ended"
  /\ all.format = "markdown"
  /\ all.requests = << 1, 2, 3 >>
  /\ all.errors = << all.conversations[2].name >>
  /\ Len(all.saved) = 2
  /\ all.responses = << [success |-> TRUE, count |-> 2, warnings |-> TRUE] >>
====
